---- MODULE Spec2Model ----
(***************************************************************************)
(* Model of the Imager controller, src/imager/a6editor.py (class Editor).  *)
(*                                                                         *)
(* The current image is a record [width, height, data], data being the     *)
(* row-major sequence of <<red, green, blue>> pixels.  Python positions    *)
(* are kept 0-based as in the source; only the access into the TLA+        *)
(* sequence adds 1.  A Python str is the sequence of its code points, a    *)
(* Python list of ints is a sequence of integers.                          *)
(***************************************************************************)
EXTENDS Integers, Sequences, FiniteSets, TLC

VARIABLES current, ret, hist

vars == <<current, ret, hist>>

(***************************************************************************)
(* Bounds of the model.                                                    *)
(***************************************************************************)
MaxOps == 2
MaxGeomOps == 4
MaxCodecOps == 2
MaxTail == 5
MaxTextLen == 2
MaxStep == 2

(***************************************************************************)
(* The pixel-grid interface the editor calls (module a6image).             *)
(***************************************************************************)
MkImage(w, h, d) == [width |-> w, height |-> h, data |-> d]

getLength(image) == Len(image.data)

getWidth(image) == image.width

getHeight(image) == image.height

\* the assertion of getPixel/setPixel that _avgRGB catches
InBounds(image, row, col) ==
    /\ 0 <= row /\ row < image.height
    /\ 0 <= col /\ col < image.width

getFlatPixel(image, pos) == image.data[pos + 1]

setFlatPixel(image, pos, pixel) == [image EXCEPT !.data[pos + 1] = pixel]

getPixel(image, row, col) == image.data[row * image.width + col + 1]

setPixel(image, row, col, pixel) ==
    [image EXCEPT !.data[row * image.width + col + 1] = pixel]

swapPixels(image, row1, col1, row2, col2) ==
    setPixel(setPixel(image, row1, col1, getPixel(image, row2, col2)),
             row2, col2, getPixel(image, row1, col1))

setWidth(image, value) ==
    [image EXCEPT !.width = value, !.height = Len(image.data) \div value]

copy(image) == image

(***************************************************************************)
(* Python arithmetic.                                                      *)
(***************************************************************************)
\* int(num/den) for den > 0: truncation toward zero
Trunc(num, den) == IF num >= 0 THEN num \div den ELSE -((-num) \div den)

\* int(x) of a float x whose exact value is num/den (num >= 0, den > 0) and
\* that was computed with rounding: the float can fall just below an exact
\* integer value, so int() yields that integer or the one below it; any other
\* value is further from an integer than the rounding error.
FloatTrunc(num, den) ==
    IF num > 0 /\ num % den = 0
    THEN {num \div den - 1, num \div den}
    ELSE {Trunc(num, den)}

(***************************************************************************)
(* invert, lines 36-47.                                                    *)
(***************************************************************************)
RECURSIVE invertLoop(_, _)
invertLoop(cur, pos) ==
    IF pos >= getLength(cur) THEN cur
    ELSE LET rgb   == getFlatPixel(cur, pos)
             red   == 255 - rgb[1]
             green == 255 - rgb[2]
             blue  == 255 - rgb[3]
         IN  invertLoop(setFlatPixel(cur, pos, <<red, green, blue>>), pos + 1)

\* the loop started at the second pixel: the first keeps its colour
invertFromSecond(image) == invertLoop(image, 1)

invert(image) == invertLoop(image, 0)

(***************************************************************************)
(* transpose, lines 49-66.  The loop counter i enumerates (row, col) in    *)
(* the order of the nested for loops over the resized image.               *)
(***************************************************************************)
RECURSIVE transposeLoop(_, _, _)
transposeLoop(cur, original, i) ==
    IF i >= getHeight(cur) * getWidth(cur) THEN cur
    ELSE LET row == i \div getWidth(cur)
             col == i % getWidth(cur)
         IN  transposeLoop(setPixel(cur, row, col, getPixel(original, col, row)),
                           original, i + 1)

\* the resize without the copy loop: the pixels keep their flat order
transposeResizeOnly(image) == setWidth(image, getHeight(image))

transpose(image) ==
    LET original == copy(image)
        cur      == setWidth(image, getHeight(image))
    IN  transposeLoop(cur, original, 0)

(***************************************************************************)
(* reflectHori, lines 68-76: i enumerates (h, row), h the outer loop.      *)
(***************************************************************************)
RECURSIVE reflectHoriLoop(_, _)
reflectHoriLoop(cur, i) ==
    IF i >= (getWidth(cur) \div 2) * getHeight(cur) THEN cur
    ELSE LET h   == i \div getHeight(cur)
             row == i % getHeight(cur)
             k   == getWidth(cur) - 1 - h
         IN  reflectHoriLoop(swapPixels(cur, row, h, row, k), i + 1)

\* the outer loop run over every column, not the first half: each mirrored
\* pair is swapped twice
RECURSIVE reflectHoriWholeWidthLoop(_, _)
reflectHoriWholeWidthLoop(cur, i) ==
    IF i >= getWidth(cur) * getHeight(cur) THEN cur
    ELSE LET h   == i \div getHeight(cur)
             row == i % getHeight(cur)
             k   == getWidth(cur) - 1 - h
         IN  reflectHoriWholeWidthLoop(swapPixels(cur, row, h, row, k), i + 1)

reflectHoriWholeWidth(image) == reflectHoriWholeWidthLoop(image, 0)

reflectHori(image) == reflectHoriLoop(image, 0)

(***************************************************************************)
(* rotateRight, lines 78-91, and rotateLeft, lines 93-106.                 *)
(***************************************************************************)
RECURSIVE rotateRightLoop(_, _, _)
rotateRightLoop(cur, original, i) ==
    IF i >= getHeight(cur) * getWidth(cur) THEN cur
    ELSE LET row == i \div getWidth(cur)
             col == i % getWidth(cur)
         IN  rotateRightLoop(
                 setPixel(cur, row, col,
                          getPixel(original, getHeight(original) - col - 1, row)),
                 original, i + 1)

\* the copy forgotten: the loop reads the image it is writing; a read outside
\* the image ends the call where it stands
RECURSIVE rotateRightNoCopyLoop(_, _)
rotateRightNoCopyLoop(cur, i) ==
    IF i >= getHeight(cur) * getWidth(cur) THEN cur
    ELSE LET row == i \div getWidth(cur)
             col == i % getWidth(cur)
         IN  IF ~InBounds(cur, getHeight(cur) - col - 1, row) THEN cur
             ELSE rotateRightNoCopyLoop(
                      setPixel(cur, row, col,
                               getPixel(cur, getHeight(cur) - col - 1, row)),
                      i + 1)

rotateRightNoCopy(image) ==
    rotateRightNoCopyLoop(setWidth(image, getHeight(image)), 0)

rotateRight(image) ==
    LET original == copy(image)
        cur      == setWidth(image, getHeight(image))
    IN  rotateRightLoop(cur, original, 0)

RECURSIVE rotateLeftLoop(_, _, _)
rotateLeftLoop(cur, original, i) ==
    IF i >= getHeight(cur) * getWidth(cur) THEN cur
    ELSE LET row == i \div getWidth(cur)
             col == i % getWidth(cur)
         IN  rotateLeftLoop(
                 setPixel(cur, row, col,
                          getPixel(original, col, getWidth(original) - row - 1)),
                 original, i + 1)

\* the turn taken the other way
rotateLeftTurnedRight(image) == rotateRight(image)

rotateLeft(image) ==
    LET original == copy(image)
        cur      == setWidth(image, getHeight(image))
    IN  rotateLeftLoop(cur, original, 0)

(***************************************************************************)
(* reflectVert, lines 110-118: i enumerates (h, col), h the outer loop.    *)
(***************************************************************************)
RECURSIVE reflectVertLoop(_, _)
reflectVertLoop(cur, i) ==
    IF i >= (getHeight(cur) \div 2) * getWidth(cur) THEN cur
    ELSE LET h   == i \div getWidth(cur)
             col == i % getWidth(cur)
             k   == getHeight(cur) - 1 - h
         IN  reflectVertLoop(swapPixels(cur, h, col, k, col), i + 1)

reflectVert(image) == reflectVertLoop(image, 0)

(***************************************************************************)
(* monochromify, lines 120-158.  brightness is int() of a float sum whose  *)
(* exact value is (3*red + 6*green + blue)/10; int(brightness*0.6) and     *)
(* int(brightness*0.4) equal the exact truncations for brightness 0..255.  *)
(***************************************************************************)
monoPixels(rgb, sepia) ==
    { IF sepia
      THEN <<brightness, Trunc(6 * brightness, 10), Trunc(4 * brightness, 10)>>
      ELSE <<brightness, brightness, brightness>> :
      brightness \in FloatTrunc(3 * rgb[1] + 6 * rgb[2] + rgb[3], 10) }

RECURSIVE monochromifyLoop(_, _, _)
monochromifyLoop(cur, sepia, pos) ==
    IF pos >= getLength(cur) THEN {cur}
    ELSE UNION { monochromifyLoop(setFlatPixel(cur, pos, rgb), sepia, pos + 1) :
                 rgb \in monoPixels(getFlatPixel(cur, pos), sepia) }

\* the set of images the call can leave
monochromify(image, sepia) == monochromifyLoop(image, sepia, 0)

(***************************************************************************)
(* vignette, lines 183-216.  With N = (2k-w)^2 + (2x-h)^2 and              *)
(* D = w^2 + h^2 the exact value of rgb[c]*formula is rgb[c]*(D-N)/D; at   *)
(* dist2 = 0.0 the float formula is exactly 1.0.                           *)
(***************************************************************************)
\* the distance measured from the far corner (w, h) instead of the centre
vignetteChannelFromCorner(value, w, h, x, k) ==
    LET N == 4 * ((k - w) * (k - w) + (x - h) * (x - h))
        D == w * w + h * h
    IN  {Trunc(value * (D - N), D)}

\* the half diagonal taken from the width alone
vignetteChannelWidthOnly(value, w, h, x, k) ==
    LET N == (2 * k - w) * (2 * k - w) + (2 * x - h) * (2 * x - h)
        D == w * w
    IN  {Trunc(value * (D - N), D)}

vignetteChannel(value, w, h, x, k) ==
    LET N == (2 * k - w) * (2 * k - w) + (2 * x - h) * (2 * x - h)
        D == w * w + h * h
    IN  IF N = 0 THEN {value}
        ELSE IF N >= D THEN {Trunc(value * (D - N), D)}
        ELSE FloatTrunc(value * (D - N), D)

RECURSIVE vignetteLoop(_, _)
vignetteLoop(cur, i) ==
    LET w == getWidth(cur)
        h == getHeight(cur)
    IN  IF i >= h * w THEN {cur}
        ELSE LET x   == i \div w
                 k   == i % w
                 rgb == getPixel(cur, x, k)
             IN  UNION { vignetteLoop(setPixel(cur, x, k, <<red, green, blue>>), i + 1) :
                         red   \in vignetteChannel(rgb[1], w, h, x, k),
                         green \in vignetteChannel(rgb[2], w, h, x, k),
                         blue  \in vignetteChannel(rgb[3], w, h, x, k) }

\* the set of images the call can leave
vignette(image) == vignetteLoop(image, 0)

(***************************************************************************)
(* An operation that can raise carries the image it has written so far     *)
(* and the exception that ended it ("none" when it completed).             *)
(***************************************************************************)
Ok(image) == [image |-> image, exc |-> "none"]

Raise(image, name) == [image |-> image, exc |-> name]

\* current.setPixel(row, col, pixel) inside a call that does not catch
trySetPixel(st, row, col, pixel) ==
    IF st.exc # "none" THEN st
    ELSE IF InBounds(st.image, row, col)
         THEN Ok(setPixel(st.image, row, col, pixel))
         ELSE Raise(st.image, "AssertionError")

(***************************************************************************)
(* _drawHBar, lines 502-523, and _drawVBar, lines 525-547.                 *)
(***************************************************************************)
RECURSIVE drawHBarLoop(_, _, _, _)
drawHBarLoop(st, row, pixel, col) ==
    IF st.exc # "none" \/ col >= getWidth(st.image) THEN st
    ELSE drawHBarLoop(
             trySetPixel(trySetPixel(trySetPixel(st, row, col, pixel),
                                     row + 1, col, pixel),
                         row + 2, col, pixel),
             row, pixel, col + 1)

drawHBar(st, row, pixel) == drawHBarLoop(st, row, pixel, 0)

RECURSIVE drawVBarLoop(_, _, _, _)
drawVBarLoop(st, col, pixel, row) ==
    IF st.exc # "none" \/ row >= getHeight(st.image) THEN st
    ELSE drawVBarLoop(
             trySetPixel(trySetPixel(trySetPixel(trySetPixel(st, row, col, pixel),
                                                 row, col + 1, pixel),
                                     row, col + 2, pixel),
                         row, col + 3, pixel),
             col, pixel, row + 1)

drawVBar(st, col, pixel) == drawVBarLoop(st, col, pixel, 0)

(***************************************************************************)
(* jail, lines 160-180.  dist = (w-4)/(n+2) is a float; int(x*dist) is     *)
(* the truncation of x*(w-4)/(n+2).                                        *)
(***************************************************************************)
RECURSIVE jailLoop(_, _, _, _, _)
jailLoop(st, w, n, pixel, x) ==
    IF st.exc # "none" \/ x >= n + 3 THEN st
    ELSE jailLoop(drawVBar(st, Trunc(x * (w - 4), n + 2), pixel), w, n, pixel, x + 1)

jail(image) ==
    LET pixel == <<255, 0, 0>>
        w     == getWidth(image)
        h     == getHeight(image)
        top   == drawHBar(Ok(image), 0, pixel)
        both  == IF top.exc # "none" THEN top ELSE drawHBar(top, h - 3, pixel)
        n     == (w - 8) \div 50
    IN  jailLoop(both, w, n, pixel, 0)

(***************************************************************************)
(* _avgRGB, lines 618-680, and pixellate, lines 220-245.  getPixel and     *)
(* setPixel outside the image raise AssertionError, which both loops of    *)
(* _avgRGB catch per pixel, so only the in-bounds pixels count.            *)
(***************************************************************************)
blockCells(image, x, y, step) ==
    { rc \in (x .. x + step - 1) \X (y .. y + step - 1) : InBounds(image, rc[1], rc[2]) }

RECURSIVE sumChannel(_, _, _)
sumChannel(image, cells, c) ==
    IF cells = {} THEN 0
    ELSE LET rc == CHOOSE e \in cells : TRUE
         IN  getPixel(image, rc[1], rc[2])[c] + sumChannel(image, cells \ {rc}, c)

RECURSIVE fillCells(_, _, _)
fillCells(image, cells, pixel) ==
    IF cells = {} THEN image
    ELSE LET rc == CHOOSE e \in cells : TRUE
         IN  fillCells(setPixel(image, rc[1], rc[2], pixel), cells \ {rc}, pixel)

\* the sums divided by step*step, whatever part of the block is in the image
avgRGBWholeBlock(image, x, y, step) ==
    LET cells == blockCells(image, x, y, step)
        avg(c) == Trunc(sumChannel(image, cells, c), step * step)
    IN  fillCells(image, cells, <<avg(1), avg(2), avg(3)>>)

avgRGB(image, x, y, step) ==
    LET cells    == blockCells(image, x, y, step)
        countk   == Cardinality(cells)
        avgRed   == Trunc(sumChannel(image, cells, 1), countk)
        avgGreen == Trunc(sumChannel(image, cells, 2), countk)
        avgBlue  == Trunc(sumChannel(image, cells, 3), countk)
    IN  fillCells(image, cells, <<avgRed, avgGreen, avgBlue>>)

\* i enumerates the block corners (x, y) of range(0,h,step) x range(0,w,step)
RECURSIVE pixellateLoop(_, _, _)
pixellateLoop(cur, step, i) ==
    LET w    == getWidth(cur)
        h    == getHeight(cur)
        cols == (w + step - 1) \div step
        rows == (h + step - 1) \div step
    IN  IF i >= rows * cols THEN cur
        ELSE pixellateLoop(avgRGB(cur, (i \div cols) * step, (i % cols) * step, step),
                           step, i + 1)

\* the corners taken at every row and column instead of every step-th: the
\* blocks overlap
RECURSIVE pixellateEveryCornerLoop(_, _, _)
pixellateEveryCornerLoop(cur, step, i) ==
    LET w == getWidth(cur)
        h == getHeight(cur)
    IN  IF i >= h * w THEN cur
        ELSE pixellateEveryCornerLoop(avgRGB(cur, i \div w, i % w, step), step, i + 1)

pixellateEveryCorner(image, step) == pixellateEveryCornerLoop(image, step, 0)

pixellate(image, step) == pixellateLoop(image, step, 0)

(***************************************************************************)
(* Python strings, lists and conversions.  A character is the record       *)
(* [cp |-> code point]; a str is a sequence of characters.                 *)
(***************************************************************************)
chr(x) == [cp |-> x]

ord(ch) == ch.cp

\* list[start:stop] for 0-based start, stop; a negative bound counts from the end
Slice(list, start, stop) ==
    LET n  == Len(list)
        lo == IF start < 0 THEN (IF start + n < 0 THEN 0 ELSE start + n)
              ELSE (IF start > n THEN n ELSE start)
        hi == IF stop < 0 THEN (IF stop + n < 0 THEN 0 ELSE stop + n)
              ELSE (IF stop > n THEN n ELSE stop)
    IN  IF hi <= lo THEN <<>> ELSE SubSeq(list, lo + 1, hi)

\* list.index(value): the 0-based position of the first occurrence, -1 standing
\* for the ValueError raised when there is none
index(list, value) ==
    IF \E i \in 1..Len(list) : list[i] = value
    THEN (CHOOSE i \in 1..Len(list) :
              list[i] = value /\ \A j \in 1..(i - 1) : list[j] # value) - 1
    ELSE -1

\* str(n) of an int
RECURSIVE str(_)
str(n) ==
    IF n < 0 THEN <<chr(45)>> \o str(-n)
    ELSE IF n < 10 THEN <<chr(48 + n)>>
    ELSE Append(str(n \div 10), chr(48 + (n % 10)))

isDigit(ch) == 48 <= ord(ch) /\ ord(ch) <= 57

\* the characters int() strips from both ends of its argument
isSpace(ch) == ord(ch) \in {9, 10, 11, 12, 13, 32, 133, 160}

RECURSIVE lstrip(_)
lstrip(string) ==
    IF string # <<>> /\ isSpace(Head(string)) THEN lstrip(Tail(string)) ELSE string

RECURSIVE rstrip(_)
rstrip(string) ==
    IF string # <<>> /\ isSpace(string[Len(string)])
    THEN rstrip(SubSeq(string, 1, Len(string) - 1))
    ELSE string

\* the value of a run of digits and single underscores between digits
RECURSIVE digitsValue(_, _)
digitsValue(string, acc) ==
    IF string = <<>> THEN acc
    ELSE IF isDigit(Head(string))
         THEN digitsValue(Tail(string), 10 * acc + (ord(Head(string)) - 48))
         ELSE digitsValue(Tail(string), acc)

\* int(string), base 10: optional surrounding white space, an optional sign,
\* then digits, single underscores allowed between two digits; anything else
\* is a ValueError (ok = FALSE)
int(string) ==
    LET stripped == rstrip(lstrip(string))
        signed   == stripped # <<>> /\ ord(Head(stripped)) \in {43, 45}
        body     == IF signed THEN Tail(stripped) ELSE stripped
        wellFormed ==
            /\ body # <<>>
            /\ isDigit(body[1]) /\ isDigit(body[Len(body)])
            /\ \A i \in 1..Len(body) : isDigit(body[i]) \/ ord(body[i]) = 95
            /\ \A i \in 1..(Len(body) - 1) : ~(ord(body[i]) = 95 /\ ord(body[i + 1]) = 95)
        magnitude == digitsValue(body, 0)
    IN  IF wellFormed
        THEN [ok |-> TRUE,
              value |-> IF signed /\ ord(Head(stripped)) = 45 THEN -magnitude ELSE magnitude]
        ELSE [ok |-> FALSE, value |-> 0]

(***************************************************************************)
(* _text_to_ASCII, lines 296-312.                                          *)
(***************************************************************************)
text_to_ASCII(text) == [i \in 1..Len(text) |-> ord(text[i])]

(***************************************************************************)
(* _is_ASCII, lines 330-350: the loop returns in its first iteration, so   *)
(* the answer is that of the first element; an empty list falls off the    *)
(* end of the function, which returns None.                                *)
(***************************************************************************)
is_ASCII(thelist) ==
    IF thelist = <<>> THEN "None"
    ELSE IF ~(0 <= thelist[1] /\ thelist[1] <= 255) THEN "False"
    ELSE "True"

(***************************************************************************)
(* _decode_pixel, lines 549-565, and _pixels_to_ASCII, lines 461-478.      *)
(***************************************************************************)
decode_pixel(image, pos) ==
    LET rgb   == getFlatPixel(image, pos)
        red   == rgb[1]
        green == rgb[2]
        blue  == rgb[3]
    IN  (red % 10) * 100 + (green % 10) * 10 + (blue % 10)

pixels_to_ASCII(image) == [x \in 1..getLength(image) |-> decode_pixel(image, x - 1)]

(***************************************************************************)
(* _encode_pixel, lines 567-616.                                           *)
(***************************************************************************)
\* the digit replaced without folding a value above 255 back
foldChannelNoFold(value, digit) == (value \div 10) * 10 + digit

\* lines 602-612, per channel
foldChannel(value, digit) ==
    LET v == (value \div 10) * 10 + digit
    IN  IF v > 255 THEN v - 10 ELSE v

encode_pixel(st, pos, ASCII) ==
    IF st.exc # "none" THEN st
    ELSE IF ~(0 <= ASCII /\ ASCII <= 255) THEN Raise(st.image, "AssertionError")
    \* getFlatPixel asserts that pos is a position of the image
    ELSE IF ~(0 <= pos /\ pos < getLength(st.image)) THEN Raise(st.image, "AssertionError")
    ELSE LET a   == ASCII \div 100
             b   == (ASCII \div 10) % 10
             c   == ASCII % 10
             rgb == getFlatPixel(st.image, pos)
             red   == foldChannel(rgb[1], a)
             green == foldChannel(rgb[2], b)
             blue  == foldChannel(rgb[3], c)
         IN  Ok(setFlatPixel(st.image, pos, <<red, green, blue>>))

(***************************************************************************)
(* _ASCII_encode, lines 315-327.                                           *)
(***************************************************************************)
RECURSIVE ASCII_encodeLoop(_, _, _)
ASCII_encodeLoop(st, thelist, x) ==
    IF st.exc # "none" \/ x >= Len(thelist) THEN st
    ELSE ASCII_encodeLoop(encode_pixel(st, x, thelist[x + 1]), thelist, x + 1)

\* a closing code 0 written into the pixel after the last character
ASCII_encodeTerminated(image, thelist) ==
    IF is_ASCII(thelist) # "True" THEN Raise(image, "AssertionError")
    ELSE ASCII_encodeLoop(Ok(image), Append(thelist, 0), 0)

ASCII_encode(image, thelist) ==
    IF is_ASCII(thelist) # "True" THEN Raise(image, "AssertionError")
    ELSE ASCII_encodeLoop(Ok(image), thelist, 0)

(***************************************************************************)
(* encode, lines 249-293.  The result carries the image left behind, the   *)
(* exception raised ("none" if none) and the value returned.               *)
(***************************************************************************)
\* the capacity computation with the digits of the length left out
characters_totalNoDigits(text) == 4 + Len(text)

\* lines 277-279: the pixels the marker and the text need
characters_total(text) ==
    LET string           == str(Len(text))
        character_length == Len(string)
    IN  character_length + 4 + Len(text)

encode(image, text) ==
    IF Len(text) > 999999 THEN [image |-> image, exc |-> "none", ret |-> FALSE]
    ELSE LET string  == str(Len(text))
             maximum == getLength(image)
         IN  IF characters_total(text) > maximum
             THEN [image |-> image, exc |-> "none", ret |-> FALSE]
             ELSE LET marker_start == <<chr(125), chr(126)>>
                      marker_end   == <<chr(126), chr(123)>>
                      marker       == marker_start \o string \o marker_end
                      ASCII_code   == text_to_ASCII(marker) \o text_to_ASCII(text)
                      st           == ASCII_encode(image, ASCII_code)
                  IN  [image |-> st.image, exc |-> st.exc, ret |-> st.exc = "none"]

(***************************************************************************)
(* _translate_ASCII, lines 480-497: [exc, val], val the str built.         *)
(***************************************************************************)
translate_ASCII(code) ==
    IF is_ASCII(code) # "True" THEN [exc |-> "AssertionError", val |-> <<>>]
    ELSE [exc |-> "none", val |-> [i \in 1..Len(code) |-> chr(code[i])]]

(***************************************************************************)
(* _Code_to_Int, lines 444-458: the int, or False (ok = FALSE) on a        *)
(* ValueError.  PyEqFalse is Python's `v == False`, true of False and of 0.*)
(***************************************************************************)
Code_to_Int(string) == int(string)

PyEqFalse(v) == ~v.ok \/ v.value = 0

(***************************************************************************)
(* _isMarker, lines 380-420: [exc, val], val the bool returned.            *)
(***************************************************************************)
isMarker(thelist) ==
    LET no(e)   == [exc |-> e, val |-> FALSE]
        marker1 == Slice(thelist, 0, 2)
        rest    == Slice(thelist, 2, Len(thelist))
        pos     == index(rest, 126) + 2
        between == Slice(thelist, 2, pos)
        number  == translate_ASCII(between)
    IN  IF is_ASCII(thelist) = "False" THEN no("none")
        ELSE IF marker1 # <<125, 126>> THEN no("none")
        ELSE IF index(rest, 126) = -1 THEN no("ValueError")
        ELSE IF pos + 1 >= Len(thelist) THEN no("IndexError")
        ELSE IF thelist[pos + 2] # 123 THEN no("none")
        ELSE IF Len(between) > 6 THEN no("none")
        ELSE IF number.exc # "none" THEN no(number.exc)
        ELSE IF PyEqFalse(Code_to_Int(number.val)) THEN no("none")
        ELSE [exc |-> "none", val |-> TRUE]

(***************************************************************************)
(* _getLengthCode, lines 423-441: [exc, val], val the value returned by    *)
(* _Code_to_Int.                                                           *)
(***************************************************************************)
getLengthCode(thelist) ==
    LET rest   == Slice(thelist, 2, Len(thelist))
        pos    == index(rest, 126)
        digits == Slice(rest, 0, pos)
        string == translate_ASCII(digits)
    IN  IF is_ASCII(thelist) # "True" THEN [exc |-> "AssertionError", val |-> int(<<>>)]
        ELSE IF pos = -1 THEN [exc |-> "ValueError", val |-> int(<<>>)]
        ELSE IF string.exc # "none" THEN [exc |-> string.exc, val |-> int(<<>>)]
        ELSE [exc |-> "none", val |-> Code_to_Int(string.val)]

(***************************************************************************)
(* decode, lines 353-377: [tag, text]; tag is "str" with the text          *)
(* returned, "None", or the name of the exception raised.                  *)
(***************************************************************************)
decode(image) ==
    LET message_code  == pixels_to_ASCII(image)
        marker        == isMarker(message_code)
        length        == getLengthCode(message_code)
        length_text   == length.val.value
        charac_length == Len(str(length_text))
        start         == 4 + charac_length
        stop          == start + length_text
        text_code     == Slice(message_code, start, stop)
        text          == translate_ASCII(text_code)
    IN  IF marker.exc # "none" THEN [tag |-> marker.exc, text |-> <<>>]
        ELSE IF marker.val = FALSE THEN [tag |-> "None", text |-> <<>>]
        ELSE IF length.exc # "none" THEN [tag |-> length.exc, text |-> <<>>]
        ELSE IF text.exc # "none" THEN [tag |-> text.exc, text |-> <<>>]
        ELSE [tag |-> "str", text |-> text.val]

(***************************************************************************)
(* The images the editor starts from.                                      *)
(***************************************************************************)
MaxWidth == 4
MaxHeight == 3

\* an image of distinct, spread-out pixels
Gradient(w, h, seed) ==
    MkImage(w, h, [i \in 1..(w * h) |->
                       <<(37 * i * seed) % 256,
                         (2560 - 11 * i * seed) % 256,
                         (199 + i * i * seed) % 256>>])

\* an image of one colour
Flat(w, h, pixel) == MkImage(w, h, [i \in 1..(w * h) |-> pixel])

Dims == (1..MaxWidth) \X (1..MaxHeight)

InitImages ==
    {Gradient(d[1], d[2], 1) : d \in Dims}
        \cup {Flat(d[1], d[2], <<199, 254, 247>>) : d \in Dims}

\* the texts handed to encode: ~ (the marker's delimiter), the largest
\* character code, and a character above 255
TextAlphabet == {chr(126), chr(255), chr(256)}

RECURSIVE SeqsUpTo(_, _)
SeqsUpTo(S, n) ==
    IF n = 0 THEN {<<>>}
    ELSE LET shorter == SeqsUpTo(S, n - 1)
         IN  shorter \cup {Append(t, x) : t \in {u \in shorter : Len(u) = n - 1}, x \in S}

Texts == SeqsUpTo(TextAlphabet, MaxTextLen)

(***************************************************************************)
(* The state machine: current is the image getCurrent() returns, ret the   *)
(* outcome of the last call, hist the calls made so far, each with the     *)
(* image it found.                                                         *)
(***************************************************************************)
Void == [tag |-> "void", text |-> <<>>]

Outcome(exc) == IF exc = "none" THEN Void ELSE [tag |-> exc, text |-> <<>>]

Call(op, arg, image, r) ==
    /\ current' = image
    /\ ret' = r
    /\ hist' = Append(hist, [op |-> op, arg |-> arg, pre |-> current, ret |-> r])

Init ==
    /\ current \in InitImages
    /\ ret = Void
    /\ hist = <<>>

Invert == Call("invert", <<>>, invert(current), Void)

Transpose == Call("transpose", <<>>, transpose(current), Void)

ReflectHori == Call("reflectHori", <<>>, reflectHori(current), Void)

RotateRight == Call("rotateRight", <<>>, rotateRight(current), Void)

RotateLeft == Call("rotateLeft", <<>>, rotateLeft(current), Void)

ReflectVert == Call("reflectVert", <<>>, reflectVert(current), Void)

Monochromify ==
    \E sepia \in BOOLEAN :
        \E image \in monochromify(current, sepia) :
            Call("monochromify", <<sepia>>, image, Void)

Jail ==
    LET st == jail(current)
    IN  Call("jail", <<>>, st.image, Outcome(st.exc))

Vignette ==
    \E image \in vignette(current) : Call("vignette", <<>>, image, Void)

\* line 237 rejects a step that is not positive
Pixellate ==
    \E step \in 0..MaxStep :
        IF step > 0
        THEN Call("pixellate", <<step>>, pixellate(current, step), Void)
        ELSE Call("pixellate", <<step>>, current, Outcome("AssertionError"))

Encode ==
    \E text \in Texts :
        LET r == encode(current, text)
        IN  Call("encode", text, r.image,
                 IF r.exc # "none" THEN Outcome(r.exc)
                 ELSE [tag |-> IF r.ret THEN "True" ELSE "False", text |-> <<>>])

Decode == Call("decode", <<>>, current, decode(current))

Next ==
    \/ Len(hist) < MaxOps /\ Invert
    \/ Len(hist) < MaxOps /\ Transpose
    \/ Len(hist) < MaxOps /\ ReflectHori
    \/ Len(hist) < MaxOps /\ RotateRight
    \/ Len(hist) < MaxOps /\ RotateLeft
    \/ Len(hist) < MaxOps /\ ReflectVert
    \/ Len(hist) < MaxOps /\ Monochromify
    \/ Len(hist) < MaxOps /\ Jail
    \/ Len(hist) < MaxOps /\ Vignette
    \/ Len(hist) < MaxOps /\ Pixellate
    \/ Len(hist) < MaxOps /\ Encode
    \/ Len(hist) < MaxOps /\ Decode

Spec == Init /\ [][Next]_vars

(***************************************************************************)
(* The geometric operations alone, in longer sequences.                    *)
(***************************************************************************)
NextGeom ==
    \/ Len(hist) < MaxGeomOps /\ Transpose
    \/ Len(hist) < MaxGeomOps /\ ReflectHori
    \/ Len(hist) < MaxGeomOps /\ RotateRight
    \/ Len(hist) < MaxGeomOps /\ RotateLeft
    \/ Len(hist) < MaxGeomOps /\ ReflectVert

SpecGeom == Init /\ [][NextGeom]_vars

(***************************************************************************)
(* The steganographic channel alone: encode and decode calls.              *)
(***************************************************************************)
NextCodec ==
    \/ Len(hist) < MaxCodecOps /\ Encode
    \/ Len(hist) < MaxCodecOps /\ Decode

SpecCodec == Init /\ [][NextCodec]_vars

(***************************************************************************)
(* decode on images whose pixels carry arbitrary channel-digit numbers:    *)
(* the image of a list of numbers 0..999 holds, per pixel, the three       *)
(* digits of the number as channel values.                                 *)
(***************************************************************************)
CodeImage(codes) ==
    MkImage(Len(codes), 1,
            [i \in 1..Len(codes) |->
                <<codes[i] \div 100, (codes[i] \div 10) % 10, codes[i] % 10>>])

\* } ~ { 0 1 - and a number that is no character code below 256
CodeAlphabet == {125, 126, 123, 48, 49, 45, 300}

CodeHeads == {<<125, 126>>, <<126, 125>>, <<125, 125>>, <<300, 126>>}

\* a marker with a run of n digits 1 and one payload pixel
DigitRun(n) == <<125, 126>> \o [i \in 1..n |-> 49] \o <<126, 123, 126>>

\* the lists of numbers decode is run on: a head, then any tail of up to
\* maxTail numbers; single numbers; two markers with long digit runs
CodeLists(maxTail) ==
    {head \o tail : head \in CodeHeads, tail \in SeqsUpTo(CodeAlphabet, maxTail)}
        \cup {<<c>> : c \in CodeAlphabet}
        \cup {DigitRun(n) : n \in 6..7}

InitDecode ==
    /\ current \in {CodeImage(codes) : codes \in CodeLists(MaxTail)}
    /\ ret = Void
    /\ hist = <<>>

\* one decode of the image
NextDecode == hist = <<>> /\ Decode

SpecDecode == InitDecode /\ [][NextDecode]_vars

(***************************************************************************)
(* _encode_pixel and _decode_pixel on their own, on a one-pixel image:     *)
(* every channel value with every code, the docstring's pixel included.    *)
(***************************************************************************)
PixelCodes == -1..256

InitPixel ==
    /\ current \in {Flat(1, 1, <<v, v, v>>) : v \in 0..255}
                       \cup {Flat(1, 1, <<199, 254, 247>>)}
    /\ ret = Void
    /\ hist = <<>>

EncodePixel ==
    \E ASCII \in PixelCodes :
        LET st == encode_pixel(Ok(current), 0, ASCII)
        IN  Call("_encode_pixel", <<ASCII>>, st.image, Outcome(st.exc))

DecodePixel ==
    Call("_decode_pixel", <<>>, current,
         [tag |-> "int", text |-> <<decode_pixel(current, 0)>>])

\* one _encode_pixel, then one _decode_pixel of what it wrote
NextPixel ==
    \/ hist = <<>> /\ EncodePixel
    \/ Len(hist) = 1 /\ DecodePixel

SpecPixel == InitPixel /\ [][NextPixel]_vars

(***************************************************************************)
(* The colour operations that work pixel by pixel and block by block:      *)
(* invert and pixellate, called one after the other.                       *)
(***************************************************************************)
MaxColourOps == 2

NextColour ==
    \/ Len(hist) < MaxColourOps /\ Invert
    \/ Len(hist) < MaxColourOps /\ Pixellate

SpecColour == Init /\ [][NextColour]_vars

(***************************************************************************)
(* jail on its own, on images wide enough for a bar between the two edge   *)
(* bars and tall enough to have rows between the two horizontal bars.      *)
(***************************************************************************)
MaxJailWidth == 58
MaxJailHeight == 7

InitJail ==
    /\ current \in {Gradient(w, h, 1) : w \in 1..MaxJailWidth, h \in 1..MaxJailHeight}
    /\ ret = Void
    /\ hist = <<>>

\* one jail call
NextJail == hist = <<>> /\ Jail

SpecJail == InitJail /\ [][NextJail]_vars

(***************************************************************************)
(* One call of one of the ten image operations on an image as it was       *)
(* loaded.                                                                 *)
(***************************************************************************)
NextOnce ==
    \/ hist = <<>> /\ Invert
    \/ hist = <<>> /\ Transpose
    \/ hist = <<>> /\ ReflectHori
    \/ hist = <<>> /\ RotateRight
    \/ hist = <<>> /\ RotateLeft
    \/ hist = <<>> /\ ReflectVert
    \/ hist = <<>> /\ Monochromify
    \/ hist = <<>> /\ Jail
    \/ hist = <<>> /\ Vignette
    \/ hist = <<>> /\ Pixellate

SpecOnce == Init /\ [][NextOnce]_vars

(***************************************************************************)
(* transpose, rotateRight and rotateLeft one call on the image object at   *)
(* a time.  hist is here the log of one run of the method: its first entry *)
(* the method entered, with the image it found, then each call the method  *)
(* makes on an image object (copy, setWidth, getPixel, setPixel), with the *)
(* object it is made on (current or original) as first argument and the    *)
(* live image before it.  current is the live image.                       *)
(***************************************************************************)
SnapshotOps == {"transpose", "rotateRight", "rotateLeft"}

\* the name original bound to the live image instead of to a copy of it
originalAliased(log, live) == live

\* the local variable original: the object copy() returned (lines 60, 86, 101)
original(log, live) == log[2].ret.text[1]

\* the (row, col) read for the pixel written at (row, col): lines 66, 91, 106
sourceCell(op, orig, row, col) ==
    IF op = "transpose" THEN <<col, row>>
    ELSE IF op = "rotateRight" THEN <<getHeight(orig) - col - 1, row>>
    ELSE <<col, getWidth(orig) - row - 1>>

\* the pixels written so far: a getPixel and a setPixel entry for each
written(log) == (Len(log) - 3) \div 2

BeginCall ==
    \E op \in SnapshotOps : hist = <<>> /\ Call(op, <<>>, current, Void)

CopyStep ==
    /\ Len(hist) = 1
    /\ Call("copy", <<"current">>, current, [tag |-> "Image", text |-> <<copy(current)>>])

SetWidthStep ==
    /\ Len(hist) = 2
    /\ Call("setWidth", <<"current", getHeight(current)>>,
            setWidth(current, getHeight(current)), Void)

GetPixelStep ==
    /\ Len(hist) >= 3
    /\ hist[Len(hist)].op \in {"setWidth", "setPixel"}
    /\ written(hist) < getHeight(current) * getWidth(current)
    /\ LET row  == written(hist) \div getWidth(current)
           col  == written(hist) % getWidth(current)
           orig == original(hist, current)
           cell == sourceCell(hist[1].op, orig, row, col)
       IN  IF InBounds(orig, cell[1], cell[2])
           THEN Call("getPixel", <<"original", cell[1], cell[2]>>, current,
                     [tag |-> "pixel", text |-> getPixel(orig, cell[1], cell[2])])
           ELSE Call("getPixel", <<"original", cell[1], cell[2]>>, current,
                     Outcome("AssertionError"))

SetPixelStep ==
    /\ Len(hist) >= 3
    /\ hist[Len(hist)].op = "getPixel"
    /\ hist[Len(hist)].ret.tag = "pixel"
    /\ LET row == written(hist) \div getWidth(current)
           col == written(hist) % getWidth(current)
       IN  Call("setPixel", <<"current", row, col>>,
                setPixel(current, row, col, hist[Len(hist)].ret.text), Void)

NextSteps ==
    \/ BeginCall
    \/ CopyStep
    \/ SetWidthStep
    \/ GetPixelStep
    \/ SetPixelStep

SpecSteps == Init /\ [][NextSteps]_vars

(***************************************************************************)
(* Longer runs of the steganographic channel: several encode calls on the  *)
(* same image, with decode calls among them.                               *)
(***************************************************************************)
MaxWrites == 3

NextWrites ==
    \/ Len(hist) < MaxWrites /\ Encode
    \/ Len(hist) < MaxWrites /\ Decode

SpecWrites == Init /\ [][NextWrites]_vars

(***************************************************************************)
(* One encode call, on the images of Init and on white images, whose       *)
(* channels are at the top of the range.                                   *)
(***************************************************************************)
InitFootprint ==
    /\ current \in InitImages \cup {Flat(d[1], d[2], <<255, 255, 255>>) : d \in Dims}
    /\ ret = Void
    /\ hist = <<>>

NextFootprint == hist = <<>> /\ Encode

SpecFootprint == InitFootprint /\ [][NextFootprint]_vars

(***************************************************************************)
(* _is_ASCII on its own, on lists of ints: codes at and around the ends of *)
(* 0..255, in every order, the empty list included.                        *)
(***************************************************************************)
MaxListLen == 3

ListAlphabet == {-1, 0, 65, 255, 256}

IsASCII ==
    \E thelist \in SeqsUpTo(ListAlphabet, MaxListLen) :
        Call("_is_ASCII", thelist, current, [tag |-> is_ASCII(thelist), text |-> <<>>])

NextLists == hist = <<>> /\ IsASCII

SpecLists == Init /\ [][NextLists]_vars

(***************************************************************************)
(* Vocabulary of the properties.                                           *)
(***************************************************************************)
\* the image the i-th call left behind
Post(i) == IF i < Len(hist) THEN hist[i + 1].pre ELSE current

Calls == 1..Len(hist)

digitCount(n) == Len(str(n))

\* the text fits the image: the capacity rule of the codec
Fits(text, image) ==
    /\ Len(text) <= 999999
    /\ 4 + digitCount(Len(text)) + Len(text) <= getLength(image)

IsByteText(text) == \A i \in 1..Len(text) : 0 <= text[i].cp /\ text[i].cp <= 255

Returned(i, tag) == hist[i].ret.tag = tag

(***************************************************************************)
(* C1: round trip.  For every image and every text of characters 0..255    *)
(* that fits the image (the empty text and a text that fills the image     *)
(* exactly included), encode returns True and a decode that follows        *)
(* returns exactly the text.                                               *)
(***************************************************************************)
C1_RoundTrip ==
    \A i \in Calls :
        ( /\ i < Len(hist)
          /\ hist[i].op = "encode" /\ hist[i + 1].op = "decode"
          /\ IsByteText(hist[i].arg) /\ Fits(hist[i].arg, hist[i].pre) )
        => /\ Returned(i, "True")
           /\ hist[i + 1].ret = [tag |-> "str", text |-> hist[i].arg]

\* the same round trip for the non-empty texts only
C1_RoundTripNonEmpty ==
    \A i \in Calls :
        ( /\ i < Len(hist)
          /\ hist[i].op = "encode" /\ hist[i + 1].op = "decode"
          /\ hist[i].arg # <<>>
          /\ IsByteText(hist[i].arg) /\ Fits(hist[i].arg, hist[i].pre) )
        => /\ Returned(i, "True")
           /\ hist[i + 1].ret = [tag |-> "str", text |-> hist[i].arg]

(***************************************************************************)
(* C2: capacity.  An encode whose text is longer than 999999 characters    *)
(* or needs more pixels than the image has returns False and leaves every  *)
(* pixel as it was.                                                        *)
(***************************************************************************)
C2_CapacityRejects ==
    \A i \in Calls :
        (hist[i].op = "encode" /\ ~Fits(hist[i].arg, hist[i].pre))
        => /\ Returned(i, "False")
           /\ Post(i) = hist[i].pre

\* an encode of a text one character too long for a 6-pixel image was refused
C2_Witness ==
    /\ Len(hist) >= 1
    /\ hist[1].op = "encode"
    /\ getLength(hist[1].pre) = 6 /\ Len(hist[1].arg) = 2
    /\ Returned(1, "False")

(***************************************************************************)
(* The marker as the specification words it: the codes start with } ~,     *)
(* the first ~ after them is followed by {, and the run between is 1 to 6  *)
(* decimal digits.                                                         *)
(***************************************************************************)
\* 1-based position of the first ~ after the opening pair, 0 if there is none
ClosingTilde(codes) ==
    IF \E p \in 3..Len(codes) : codes[p] = 126
    THEN CHOOSE p \in 3..Len(codes) :
             codes[p] = 126 /\ \A q \in 3..(p - 1) : codes[q] # 126
    ELSE 0

DigitRunOf(codes) == SubSeq(codes, 3, ClosingTilde(codes) - 1)

RECURSIVE DecimalValue(_)
DecimalValue(run) ==
    IF run = <<>> THEN 0
    ELSE 10 * DecimalValue(SubSeq(run, 1, Len(run) - 1)) + (run[Len(run)] - 48)

WellFormedMarker(codes) ==
    /\ Len(codes) >= 2 /\ codes[1] = 125 /\ codes[2] = 126
    /\ ClosingTilde(codes) # 0
    /\ ClosingTilde(codes) < Len(codes)
    /\ codes[ClosingTilde(codes) + 1] = 123
    /\ Len(DigitRunOf(codes)) \in 1..6
    /\ \A i \in 1..Len(DigitRunOf(codes)) : DigitRunOf(codes)[i] \in 48..57

\* the last call, a decode, and the channel-digit numbers of the image it read
DecodedLast == Len(hist) >= 1 /\ hist[Len(hist)].op = "decode"

LastCodes == pixels_to_ASCII(hist[Len(hist)].pre)

(***************************************************************************)
(* C3: marker rejection.  On every image whose channel-digit numbers do    *)
(* not form a valid marker, decode returns None and raises no error.       *)
(***************************************************************************)
C3_InvalidMarkerReturnsNone ==
    (DecodedLast /\ ~WellFormedMarker(LastCodes))
    => hist[Len(hist)].ret = [tag |-> "None", text |-> <<>>]

(***************************************************************************)
(* C4: marker recognition.  decode treats the pixels as carrying a marker  *)
(* exactly when they start with } ~, then at most 6 characters that are a  *)
(* non-negative integer 0..999999 (0 included, signed runs excluded),      *)
(* then ~ {.                                                               *)
(***************************************************************************)
C4_MarkerExactlyWellFormed ==
    DecodedLast
    => (isMarker(LastCodes) = [exc |-> "none", val |-> TRUE]
            <=> WellFormedMarker(LastCodes))

(***************************************************************************)
(* C5: payload.  When the marker validates with length N, N no more than   *)
(* the pixels that remain, decode returns the text of exactly the N        *)
(* numbers that follow the marker's closing {, for every accepted digit    *)
(* run, leading zeros included.  Stated for runs of decimal digits and     *)
(* payload numbers that are character codes 0..255.                        *)
(***************************************************************************)
C5_PayloadFollowsMarker ==
    LET codes   == LastCodes
        N       == DecimalValue(DigitRunOf(codes))
        first   == ClosingTilde(codes) + 2
        payload == SubSeq(codes, first, first + N - 1)
    IN  ( /\ DecodedLast
          /\ WellFormedMarker(codes)
          /\ isMarker(codes) = [exc |-> "none", val |-> TRUE]
          /\ N >= 1 /\ first + N - 1 <= Len(codes)
          /\ \A i \in 1..N : payload[i] \in 0..255 )
        => hist[Len(hist)].ret =
               [tag |-> "str", text |-> [i \in 1..N |-> chr(payload[i])]]

(***************************************************************************)
(* C6: per-pixel digit encoding.  For every code c in 0..255 and every     *)
(* pixel, after _encode_pixel the ones digits of red, green, blue are the  *)
(* hundreds, tens and ones digit of c, each channel is in 0..255, each     *)
(* channel keeps its tens-and-higher part unless the value would pass      *)
(* 255, when it is exactly 10 less; _decode_pixel then returns c.          *)
(***************************************************************************)
DigitsOf(c) == <<c \div 100, (c \div 10) % 10, c % 10>>

C6_PixelDigitEncoding ==
    \A i \in Calls :
        (hist[i].op = "_encode_pixel" /\ hist[i].arg[1] \in 0..255)
        => LET c      == hist[i].arg[1]
               before == getFlatPixel(hist[i].pre, 0)
               after  == getFlatPixel(Post(i), 0)
           IN  /\ Returned(i, "void")
               /\ \A ch \in 1..3 :
                      /\ after[ch] % 10 = DigitsOf(c)[ch]
                      /\ after[ch] \in 0..255
                      /\ IF (before[ch] \div 10) * 10 + DigitsOf(c)[ch] > 255
                         THEN after[ch] = (before[ch] \div 10) * 10 + DigitsOf(c)[ch] - 10
                         ELSE after[ch] \div 10 = before[ch] \div 10
               /\ (i < Len(hist) /\ hist[i + 1].op = "_decode_pixel")
                      => hist[i + 1].ret = [tag |-> "int", text |-> <<c>>]

\* the docstring's example: (199,254,247) with code 165 became (191,246,245)
\* and was decoded as 165
C6_Witness ==
    /\ Len(hist) = 2
    /\ hist[1].op = "_encode_pixel" /\ hist[1].arg = <<165>>
    /\ getFlatPixel(hist[1].pre, 0) = <<199, 254, 247>>
    /\ getFlatPixel(current, 0) = <<191, 246, 245>>
    /\ hist[2].op = "_decode_pixel" /\ hist[2].ret.text = <<165>>

(***************************************************************************)
(* C7: no partial write.  Every encode call that does not return True      *)
(* leaves the image pixel for pixel as it was, a call whose text fits but  *)
(* holds a character above 255 included.                                   *)
(***************************************************************************)
C7_FailedEncodeWritesNothing ==
    \A i \in Calls :
        (hist[i].op = "encode" /\ ~Returned(i, "True"))
        => Post(i) = hist[i].pre

(***************************************************************************)
(* C8: grid invariant.  From an image with width, height >= 1 and every    *)
(* channel in 0..255, after any sequence of the twelve operations the      *)
(* image has width*height pixels and every channel is an integer in        *)
(* 0..255.                                                                 *)
(***************************************************************************)
WellFormed(image) ==
    /\ image.width >= 1 /\ image.height >= 1
    /\ Len(image.data) = image.width * image.height
    /\ \A i \in 1..Len(image.data) :
           \A ch \in 1..3 : image.data[i][ch] \in 0..255

C8_GridInvariant == WellFormed(current)

\* a non-square image after a completed vignette and a completed transpose
C8_Witness ==
    /\ Len(hist) = 2
    /\ hist[1].op = "vignette" /\ hist[2].op = "transpose"
    /\ Returned(1, "void") /\ Returned(2, "void")
    /\ hist[1].pre.width = 4 /\ hist[1].pre.height = 3
    /\ current.width = 3 /\ current.height = 4

(***************************************************************************)
(* C9: rotation composition.  rotateRight applied four times in a row      *)
(* gives back the image, square or not: width, height and every pixel.     *)
(***************************************************************************)
C9_FourRotationsRestore ==
    \A i \in Calls :
        (i + 3 <= Len(hist) /\ \A j \in i..(i + 3) : hist[j].op = "rotateRight")
        => Post(i + 3) = hist[i].pre

\* four rotateRight calls on a non-square image of distinct pixels
C9_Witness ==
    /\ Len(hist) = 4
    /\ \A j \in 1..4 : hist[j].op = "rotateRight"
    /\ hist[1].pre.width = 4 /\ hist[1].pre.height = 3
    /\ \A a, b \in 1..12 : a # b => hist[1].pre.data[a] # hist[1].pre.data[b]
    /\ hist[2].pre.width = 3 /\ hist[2].pre.height = 4
    /\ hist[2].pre.data # hist[1].pre.data

(***************************************************************************)
(* C10: transpose.  transpose leaves an image with new width = old         *)
(* height, new height = old width and new(row, col) = old(col, row);       *)
(* applied twice it restores dimensions and every pixel, on square and     *)
(* non-square images.                                                      *)
(***************************************************************************)
C10_Transpose ==
    \A i \in Calls :
        hist[i].op = "transpose"
        => /\ Post(i).width = hist[i].pre.height
           /\ Post(i).height = hist[i].pre.width
           /\ \A row \in 0..(Post(i).height - 1) :
                  \A col \in 0..(Post(i).width - 1) :
                      getPixel(Post(i), row, col) = getPixel(hist[i].pre, col, row)
           /\ (i < Len(hist) /\ hist[i + 1].op = "transpose")
                  => Post(i + 1) = hist[i].pre

\* two transposes in a row on a non-square image of distinct pixels
C10_Witness ==
    /\ Len(hist) >= 2
    /\ hist[1].op = "transpose" /\ hist[2].op = "transpose"
    /\ hist[1].pre.width = 2 /\ hist[1].pre.height = 3
    /\ \A a, b \in 1..6 : a # b => hist[1].pre.data[a] # hist[1].pre.data[b]
    /\ hist[2].pre.width = 3 /\ hist[2].pre.height = 2
    /\ Post(2) = hist[1].pre

(***************************************************************************)
(* C11: invert.  invert replaces every channel c of every pixel by         *)
(* 255 - c and keeps the dimensions; applied twice in a row it gives back  *)
(* the image it started from.                                              *)
(***************************************************************************)
C11_Invert ==
    \A i \in Calls :
        hist[i].op = "invert"
        => /\ Returned(i, "void")
           /\ Post(i).width = hist[i].pre.width
           /\ Post(i).height = hist[i].pre.height
           /\ Len(Post(i).data) = Len(hist[i].pre.data)
           /\ \A p \in 1..Len(hist[i].pre.data) :
                  \A ch \in 1..3 :
                      Post(i).data[p][ch] = 255 - hist[i].pre.data[p][ch]
           /\ (i < Len(hist) /\ hist[i + 1].op = "invert")
                  => Post(i + 1) = hist[i].pre

\* two inverts in a row on a 4x3 image: the first changed every pixel, the
\* second restored the image
C11_Witness ==
    /\ Len(hist) = 2
    /\ hist[1].op = "invert" /\ hist[2].op = "invert"
    /\ hist[1].pre.width = 4 /\ hist[1].pre.height = 3
    /\ \A p \in 1..12 : hist[2].pre.data[p] # hist[1].pre.data[p]
    /\ current = hist[1].pre
(***************************************************************************)
(* C12: pixellate.  For step >= 1 and every lattice corner (x, y), x and y *)
(* multiples of step inside the image, every pixel of the block of rows    *)
(* x .. min(x+step, height)-1 and columns y .. min(y+step, width)-1 ends   *)
(* as the per-channel truncated mean of the values those same pixels had   *)
(* before the call: a clipped edge block divides by its own pixel count.   *)
(***************************************************************************)
RECURSIVE SumTo(_, _)
SumTo(f, n) == IF n = 0 THEN 0 ELSE f[n] + SumTo(f, n - 1)

Min(a, b) == IF a <= b THEN a ELSE b

\* the truncated mean of channel ch over rows x..x2-1, columns y..y2-1
BlockMean(image, x, x2, y, y2, ch) ==
    LET bw   == y2 - y
        cnt  == bw * (x2 - x)
        vals == [j \in 1..cnt |->
                    getPixel(image, x + ((j - 1) \div bw), y + ((j - 1) % bw))[ch]]
    IN  SumTo(vals, cnt) \div cnt

C12_Pixellate ==
    \A i \in Calls :
        (hist[i].op = "pixellate" /\ hist[i].arg[1] >= 1)
        => LET step == hist[i].arg[1]
               pre  == hist[i].pre
               h    == pre.height
               w    == pre.width
           IN  /\ Returned(i, "void")
               /\ Post(i).width = w /\ Post(i).height = h
               /\ \A x \in {r \in 0..(h - 1) : r % step = 0} :
                      \A y \in {c \in 0..(w - 1) : c % step = 0} :
                          LET x2 == Min(x + step, h)
                              y2 == Min(y + step, w)
                          IN  \A r \in x..(x2 - 1) :
                                  \A c \in y..(y2 - 1) :
                                      getPixel(Post(i), r, c) =
                                          <<BlockMean(pre, x, x2, y, y2, 1),
                                            BlockMean(pre, x, x2, y, y2, 2),
                                            BlockMean(pre, x, x2, y, y2, 3)>>

\* pixellate(2) on a 3x3 image of distinct pixels: a full 2x2 block, a
\* clipped 2x1 block with the mean of its own two pixels, and a 1x1 corner
\* block that kept its colour
C12_Witness ==
    /\ Len(hist) >= 1
    /\ hist[1].op = "pixellate" /\ hist[1].arg = <<2>>
    /\ hist[1].pre.width = 3 /\ hist[1].pre.height = 3
    /\ \A a, b \in 1..9 : a # b => hist[1].pre.data[a] # hist[1].pre.data[b]
    /\ getPixel(Post(1), 0, 0) = getPixel(Post(1), 1, 1)
    /\ getPixel(Post(1), 0, 0) # getPixel(hist[1].pre, 0, 0)
    /\ getPixel(Post(1), 0, 2) = getPixel(Post(1), 1, 2)
    /\ getPixel(Post(1), 0, 2)[1] =
           (getPixel(hist[1].pre, 0, 2)[1] + getPixel(hist[1].pre, 1, 2)[1]) \div 2
    /\ getPixel(Post(1), 2, 2) = getPixel(hist[1].pre, 2, 2)
(***************************************************************************)
(* C13: jail.  With n = (width - 8) \div 50, jail colours (255,0,0) a      *)
(* 3-row bar from row 0, a 3-row bar from row height - 3, and exactly      *)
(* n + 2 vertical 4-column bars: one from column 0, one from column        *)
(* width - 4 and exactly n more between them; every other pixel keeps its  *)
(* colour.  Stated for images of width >= 8 with rows between the two      *)
(* horizontal bars and no pixel of the bar colour beforehand.              *)
(***************************************************************************)
BarColour == <<255, 0, 0>>

\* the columns of row r that have the bar colour
BarColumns(image, r) ==
    {c \in 0..(image.width - 1) : getPixel(image, r, c) = BarColour}

\* the columns covered by 4-column bars that start at the columns in starts
Covered(starts) == UNION {s..(s + 3) : s \in starts}

JailCase(i) ==
    /\ hist[i].op = "jail"
    /\ hist[i].pre.width >= 8 /\ hist[i].pre.height >= 7
    /\ \A p \in 1..Len(hist[i].pre.data) : hist[i].pre.data[p] # BarColour

JailFrame(i) ==
    LET pre == hist[i].pre
        h   == pre.height
        w   == pre.width
    IN  /\ Returned(i, "void")
        /\ Post(i).width = w /\ Post(i).height = h
        /\ \A r \in (0..2) \cup ((h - 3)..(h - 1)) : BarColumns(Post(i), r) = 0..(w - 1)
        /\ \A r \in 3..(h - 4) :
               \A c \in (0..(w - 1)) \ BarColumns(Post(i), r) :
                   getPixel(Post(i), r, c) = getPixel(pre, r, c)

C13_JailBars ==
    \A i \in Calls :
        JailCase(i)
        => LET w == hist[i].pre.width
               h == hist[i].pre.height
               n == (w - 8) \div 50
           IN  /\ JailFrame(i)
               /\ \A r \in 3..(h - 4) :
                      \E inner \in [1..n -> 1..(w - 5)] :
                          /\ \A a, b \in 1..n : a # b => inner[a] # inner[b]
                          /\ BarColumns(Post(i), r) =
                                 Covered({0, w - 4} \cup {inner[a] : a \in 1..n})

\* what the loop of lines 179-180 draws: n + 3 bars, at int(x * dist) for
\* x = 0 .. n + 2, which is n + 1 bars between the two edge bars
C13_JailDrawsOneMoreBar ==
    \A i \in Calls :
        JailCase(i)
        => LET w == hist[i].pre.width
               h == hist[i].pre.height
               n == (w - 8) \div 50
           IN  /\ JailFrame(i)
               /\ \A r \in 3..(h - 4) :
                      BarColumns(Post(i), r) =
                          Covered({(x * (w - 4)) \div (n + 2) : x \in 0..(n + 2)})
(***************************************************************************)
(* C14: totality.  On every well-formed image of width >= 1 and            *)
(* height >= 1, images narrower than 4 columns or shorter than 3 rows      *)
(* included, each of transpose, rotateLeft, rotateRight, reflectHori,      *)
(* reflectVert, invert, monochromify, vignette, pixellate(step >= 1) and   *)
(* jail completes without raising an error.                                *)
(***************************************************************************)
ImageOps ==
    {"transpose", "rotateLeft", "rotateRight", "reflectHori", "reflectVert",
     "invert", "monochromify", "vignette", "pixellate", "jail"}

TotalityCase(i) ==
    /\ hist[i].op \in ImageOps
    /\ hist[i].op = "pixellate" => hist[i].arg[1] >= 1
    /\ WellFormed(hist[i].pre)

C14_Total ==
    \A i \in Calls : TotalityCase(i) => Returned(i, "void")

\* the same with jail held to the images that have room for its bars
C14_TotalWithRoomForBars ==
    \A i \in Calls :
        ( /\ TotalityCase(i)
          /\ hist[i].op = "jail" => (hist[i].pre.width >= 4 /\ hist[i].pre.height >= 3) )
        => Returned(i, "void")

\* jail on an image without room for its bars ends in AssertionError
C14_JailRaisesWithoutRoom ==
    \A i \in Calls :
        ( /\ hist[i].op = "jail"
          /\ hist[i].pre.width < 4 \/ hist[i].pre.height < 3 )
        => Returned(i, "AssertionError")
(***************************************************************************)
(* C15: the sign of the vignette factor.  With dx = col - width/2,         *)
(* dy = row - height/2 the factor f = 1 - (dx^2 + dy^2) /                  *)
(* ((width^2 + height^2)/4) equals FactorNum / (width^2 + height^2).       *)
(***************************************************************************)
FactorNum(w, h, row, col) ==
    (w * w + h * h) - ((2 * col - w) * (2 * col - w) + (2 * row - h) * (2 * row - h))

Stepping == hist # <<>> /\ hist[1].op \in SnapshotOps

\* the run has made its last setPixel
StepsDone ==
    /\ Len(hist) >= 3
    /\ hist[Len(hist)].op \in {"setWidth", "setPixel"}
    /\ written(hist) = getHeight(current) * getWidth(current)

C17_SnapshotOrdering ==
    Stepping
    => LET entered == hist[1].pre
       IN  /\ \A j \in 2..Len(hist) :
                  /\ hist[j].op = "copy" <=> j = 2
                  /\ hist[j].op = "copy"
                         => /\ hist[j].pre = entered
                            /\ hist[j].ret.text[1] = entered
                  /\ hist[j].op \in {"setWidth", "setPixel"}
                         => hist[j].arg[1] = "current"
                  /\ hist[j].op = "getPixel"
                         => /\ hist[j].arg[1] = "original"
                            /\ hist[j].ret =
                                   [tag  |-> "pixel",
                                    text |-> getPixel(entered, hist[j].arg[2], hist[j].arg[3])]
           /\ Len(hist) >= 2 => original(hist, current) = entered

\* run to its end, the stepwise method leaves the image the whole call leaves
C17_StepsAgreeWithCall ==
    (Stepping /\ StepsDone)
    => current = (IF hist[1].op = "transpose" THEN transpose(hist[1].pre)
                  ELSE IF hist[1].op = "rotateRight" THEN rotateRight(hist[1].pre)
                  ELSE rotateLeft(hist[1].pre))

\* a rotateRight of a 4x3 image of distinct pixels run to its end, in which
\* some pixel was read at a cell the live image had already lost to a write
C17_Witness ==
    /\ Stepping /\ StepsDone
    /\ hist[1].op = "rotateRight"
    /\ hist[1].pre.width = 4 /\ hist[1].pre.height = 3
    /\ \A a, b \in 1..12 : a # b => hist[1].pre.data[a] # hist[1].pre.data[b]
    /\ written(hist) = 12
    /\ \E j \in 4..Len(hist) :
           /\ hist[j].op = "getPixel"
           /\ getFlatPixel(hist[j].pre, hist[j].arg[2] * 4 + hist[j].arg[3])
                  # hist[j].ret.text
(***************************************************************************)
(* C18: reflections.  reflectHori leaves new(row, col) =                   *)
(* old(row, width-1-col) and reflectVert new(row, col) =                   *)
(* old(height-1-row, col) at every position, the dimensions unchanged      *)
(* (so the middle column or row of an odd axis keeps its pixels); either   *)
(* one applied twice in a row gives back the image.                        *)
(***************************************************************************)
C18_Reflections ==
    \A i \in Calls :
        LET pre == hist[i].pre
            w   == pre.width
            h   == pre.height
        IN  /\ hist[i].op = "reflectHori"
                   => /\ Post(i).width = w /\ Post(i).height = h
                      /\ \A row \in 0..(h - 1), col \in 0..(w - 1) :
                             getPixel(Post(i), row, col) = getPixel(pre, row, w - 1 - col)
            /\ hist[i].op = "reflectVert"
                   => /\ Post(i).width = w /\ Post(i).height = h
                      /\ \A row \in 0..(h - 1), col \in 0..(w - 1) :
                             getPixel(Post(i), row, col) = getPixel(pre, h - 1 - row, col)
            /\ ( /\ i < Len(hist)
                 /\ hist[i].op \in {"reflectHori", "reflectVert"}
                 /\ hist[i + 1].op = hist[i].op )
                   => Post(i + 1) = pre

\* on a 3x3 image of distinct pixels: reflectHori swapped the outer columns
\* and kept the middle one, then reflectVert twice: the first swapped the
\* outer rows, the second swapped them back
C18_Witness ==
    /\ Len(hist) = 3
    /\ hist[1].op = "reflectHori"
    /\ hist[2].op = "reflectVert" /\ hist[3].op = "reflectVert"
    /\ hist[1].pre.width = 3 /\ hist[1].pre.height = 3
    /\ \A a, b \in 1..9 : a # b => hist[1].pre.data[a] # hist[1].pre.data[b]
    /\ \A row \in 0..2 :
           /\ getPixel(hist[2].pre, row, 0) = getPixel(hist[1].pre, row, 2)
           /\ getPixel(hist[2].pre, row, 1) = getPixel(hist[1].pre, row, 1)
    /\ \A col \in 0..2 :
           /\ getPixel(hist[3].pre, 0, col) = getPixel(hist[2].pre, 2, col)
           /\ getPixel(hist[3].pre, 1, col) = getPixel(hist[2].pre, 1, col)
    /\ current = hist[2].pre
(***************************************************************************)
(* C19: last writer wins.  After any sequence of encode calls on the same  *)
(* image, the successful ones with non-empty texts of characters 0..255 of *)
(* any lengths, decode returns exactly the text of the most recent         *)
(* successful encode; a failed encode in between changes nothing of that.  *)
(***************************************************************************)
\* the successful encode calls before call j
Written(j) == {i \in 1..(j - 1) : hist[i].op = "encode" /\ Returned(i, "True")}

\* the latest call of a non-empty set of calls
Latest(S) == CHOOSE i \in S : \A k \in S : k <= i

LastWriterCase(j) ==
    /\ hist[j].op = "decode"
    /\ Written(j) # {}
    /\ \A i \in Written(j) : hist[i].arg # <<>> /\ IsByteText(hist[i].arg)

C19_LastWriterWins ==
    \A j \in Calls :
        LastWriterCase(j)
        => hist[j].ret = [tag |-> "str", text |-> hist[Latest(Written(j))].arg]

\* the same where every failed encode is one that returned False
C19_LastWriterWinsAmongReturned ==
    \A j \in Calls :
        ( /\ LastWriterCase(j)
          /\ \A i \in 1..(j - 1) :
                 hist[i].op = "encode" => (Returned(i, "True") \/ Returned(i, "False")) )
        => hist[j].ret = [tag |-> "str", text |-> hist[Latest(Written(j))].arg]
(***************************************************************************)
(* C20: footprint of a successful encode(text).  With                      *)
(* L = 4 + digitCount(len(text)) + len(text): every pixel at flat index    *)
(* L or more is unchanged, width and height are unchanged, and every       *)
(* channel of every pixel at an index below L differs from its previous    *)
(* value by at most 9.                                                     *)
(***************************************************************************)
Abs(n) == IF n < 0 THEN -n ELSE n

C20_EncodeFootprint ==
    \A i \in Calls :
        (hist[i].op = "encode" /\ Returned(i, "True"))
        => LET pre  == hist[i].pre
               text == hist[i].arg
               L    == 4 + digitCount(Len(text)) + Len(text)
           IN  /\ Post(i).width = pre.width /\ Post(i).height = pre.height
               /\ getLength(Post(i)) = getLength(pre)
               /\ L <= getLength(pre)
               /\ \A p \in 0..(getLength(pre) - 1) :
                      IF p >= L
                      THEN getFlatPixel(Post(i), p) = getFlatPixel(pre, p)
                      ELSE \A ch \in 1..3 :
                               Abs(getFlatPixel(Post(i), p)[ch] - getFlatPixel(pre, p)[ch]) <= 9

\* encode of the one character ~ on a white 4x3 image: the sixth pixel took
\* the digits 1, 2, 6, its blue channel 9 lower, and the seventh is as before
C20_Witness ==
    /\ Len(hist) = 1
    /\ hist[1].op = "encode" /\ hist[1].arg = <<chr(126)>>
    /\ Returned(1, "True")
    /\ hist[1].pre = Flat(4, 3, <<255, 255, 255>>)
    /\ getFlatPixel(current, 5) = <<251, 252, 246>>
    /\ getFlatPixel(current, 6) = <<255, 255, 255>>
(***************************************************************************)
(* C21: pixellate is idempotent per step.  For every image and every       *)
(* step >= 1, pixellate(step) applied twice in a row leaves the image one  *)
(* application leaves, and pixellate(1) leaves every pixel as it was.      *)
(***************************************************************************)
C21_PixellateIdempotent ==
    \A i \in Calls :
        (hist[i].op = "pixellate" /\ hist[i].arg[1] >= 1)
        => /\ hist[i].arg[1] = 1 => Post(i) = hist[i].pre
           /\ ( /\ i < Len(hist)
                /\ hist[i + 1].op = "pixellate"
                /\ hist[i + 1].arg = hist[i].arg )
                  => Post(i + 1) = Post(i)

\* pixellate(2) twice on a 3x3 image of distinct pixels: the first call
\* changed the image, the second left it as the first had
C21_Witness ==
    /\ Len(hist) = 2
    /\ hist[1].op = "pixellate" /\ hist[1].arg = <<2>>
    /\ hist[2].op = "pixellate" /\ hist[2].arg = <<2>>
    /\ hist[1].pre.width = 3 /\ hist[1].pre.height = 3
    /\ \A a, b \in 1..9 : a # b => hist[1].pre.data[a] # hist[1].pre.data[b]
    /\ hist[2].pre # hist[1].pre
    /\ current = hist[2].pre
(***************************************************************************)
(* C22: _is_ASCII.  _is_ASCII(thelist) returns True if every element of    *)
(* the list is an int in 0..255 and False otherwise, for lists of every    *)
(* length: the empty list (True) and lists whose first element is valid    *)
(* but a later one is not (False) included.                                *)
(***************************************************************************)
AllInRange(thelist) ==
    \A k \in 1..Len(thelist) : thelist[k] \in 0..255

C22_IsASCIIEveryElement ==
    \A i \in Calls :
        hist[i].op = "_is_ASCII"
        => hist[i].ret.tag = (IF AllInRange(hist[i].arg) THEN "True" ELSE "False")

\* what lines 344-350 return: the verdict on the first element alone, and
\* None for the empty list
C22_IsASCIIFirstElementOnly ==
    \A i \in Calls :
        hist[i].op = "_is_ASCII"
        => hist[i].ret.tag =
               (IF hist[i].arg = <<>> THEN "None"
                ELSE IF hist[i].arg[1] \in 0..255 THEN "True" ELSE "False")
====
